---- MODULE Spec2Model ----
(***************************************************************************)
(* Model of addfootnote (src/main.py): the dimension resolver              *)
(* (parse_padding, parse_pixels_or_percent), the caption wrap              *)
(* (wrap_for_multiline, which delegates to textwrap.fill) and the          *)
(* process_image pipeline driven by main.                                  *)
(*                                                                         *)
(* Strings are sequences of one-character tokens.  "NL" is the line break, *)
(* "\\" the backslash, "sup2" the character U+00B2 (a digit for            *)
(* str.isdigit, not for \d and not for int()).                             *)
(***************************************************************************)
EXTENDS Integers, Sequences, FiniteSets, TLC

\* ------------------------------------------------------------------------
\* Bounds of the model
\* ------------------------------------------------------------------------
MaxDimLen == 4
MaxPercent == 120
MaxBase == 30
MaxCaptionLen == 5

\* ------------------------------------------------------------------------
\* IEEE-754 binary64 arithmetic, as far as int(base * (percent / 100)) needs
\* it.  A double is [m |-> bits of the significand, most significant first,
\* at most MantBits of them, e |-> exponent]: its value is m * 2^e.
\* ------------------------------------------------------------------------
MantBits == 53
LimbBits == 10
LimbBase == 2 ^ LimbBits
DivLimbs == 6

\* binary digits of a natural below 2^30, most significant first
BitLength(n) == CHOOSE L \in 0..30 : n < 2 ^ L /\ (L = 0 \/ 2 ^ (L - 1) <= n)
Bits(n) == [i \in 1..BitLength(n) |-> (n \div 2 ^ (BitLength(n) - i)) % 2]

RECURSIVE BitsToNat(_)
BitsToNat(b) ==
    IF Len(b) = 0 THEN 0
    ELSE 2 * BitsToNat(SubSeq(b, 1, Len(b) - 1)) + b[Len(b)]

Zeros(k) == [i \in 1..k |-> 0]

StripZeros(b) ==
    IF \A i \in 1..Len(b) : b[i] = 0 THEN <<>>
    ELSE LET k == CHOOSE i \in 1..Len(b) : b[i] = 1 /\ \A j \in 1..(i - 1) : b[j] = 0
         IN  SubSeq(b, k, Len(b))

\* a number in limbs of LimbBits bits, most significant first, as bits
LimbsToBits(limbs) ==
    [i \in 1..(LimbBits * Len(limbs)) |->
        (limbs[(i - 1) \div LimbBits + 1]
            \div 2 ^ (LimbBits - 1 - ((i - 1) % LimbBits))) % 2]

\* a bit string as limbs, padded with leading zeros to whole limbs
BitsToLimbs(b) ==
    LET n == (Len(b) + LimbBits - 1) \div LimbBits
        padded == Zeros(n * LimbBits - Len(b)) \o b
    IN  [j \in 1..n |->
            BitsToNat(SubSeq(padded, (j - 1) * LimbBits + 1, j * LimbBits))]

\* bits + 1
IncBits(b) ==
    IF \A i \in 1..Len(b) : b[i] = 1
    THEN <<1>> \o Zeros(Len(b))
    ELSE LET j == CHOOSE k \in 1..Len(b) :
                      b[k] = 0 /\ \A i \in (k+1)..Len(b) : b[i] = 1
         IN  [i \in 1..Len(b) |-> IF i < j THEN b[i] ELSE IF i = j THEN 1 ELSE 0]

\* round-to-nearest, ties-to-even, of (bits + a sticky fraction) * 2^e
RoundNearestEven(b, sticky, e) ==
    LET L == Len(b) IN
    IF L <= MantBits THEN [m |-> b, e |-> e]
    ELSE LET top   == SubSeq(b, 1, MantBits)
             guard == b[MantBits + 1]
             st    == sticky \/ \E i \in (MantBits + 2)..L : b[i] = 1
             up    == guard = 1 /\ (st \/ top[MantBits] = 1)
             r     == IF up THEN IncBits(top) ELSE top
         IN  IF Len(r) > MantBits
             THEN [m |-> SubSeq(r, 1, MantBits), e |-> e + (L - MantBits) + 1]
             ELSE [m |-> r, e |-> e + (L - MantBits)]

\* remainder of p * LimbBase^k divided by d
RECURSIVE DivRem(_, _, _)
DivRem(p, d, k) == IF k = 0 THEN p % d ELSE (DivRem(p, d, k - 1) * LimbBase) % d

\* the double nearest to p / d, for naturals p and d > 0: long division of
\* p * LimbBase^DivLimbs by d, one limb at a time, then rounding
FloatDiv(p, d) ==
    IF p = 0 THEN [m |-> <<>>, e |-> 0]
    ELSE LET frac == [k \in 1..DivLimbs |-> (DivRem(p, d, k - 1) * LimbBase) \div d]
             q    == Bits(p \div d) \o LimbsToBits(frac)
         IN  RoundNearestEven(StripZeros(q), DivRem(p, d, DivLimbs) # 0,
                              0 - LimbBits * DivLimbs)

\* carry out of the j least significant limbs of limbs * k
RECURSIVE MulCarry(_, _, _)
MulCarry(limbs, k, j) ==
    IF j = 0 THEN 0
    ELSE (limbs[Len(limbs) - j + 1] * k + MulCarry(limbs, k, j - 1)) \div LimbBase

\* bit string times a natural below 2^20
MulSmall(b, k) ==
    LET limbs == BitsToLimbs(b)
        n == Len(limbs)
        prod == [i \in 1..n |->
                    (limbs[i] * k + MulCarry(limbs, k, n - i)) % LimbBase]
    IN  StripZeros(Bits(MulCarry(limbs, k, n)) \o LimbsToBits(prod))

\* the double nearest to k * x, for a natural k (exactly representable) and
\* a double x
FloatMulInt(k, x) == RoundNearestEven(MulSmall(x.m, k), FALSE, x.e)

\* int(x) for a non-negative double: truncation
FloatToInt(x) ==
    LET L == Len(x.m) IN
    IF x.e >= 0 THEN BitsToNat(x.m) * 2 ^ x.e
    ELSE IF L + x.e <= 0 THEN 0
    ELSE BitsToNat(SubSeq(x.m, 1, L + x.e))

\* int(base * (percent / 100))
PercentOf(base, percent) == FloatToInt(FloatMulInt(base, FloatDiv(percent, 100)))

\* ------------------------------------------------------------------------
\* Characters and strings
\* ------------------------------------------------------------------------
DigitChars == {"0", "1", "2", "3", "4", "5", "6", "7", "8", "9"}

DigitVal(c) ==
    CASE c = "0" -> 0 [] c = "1" -> 1 [] c = "2" -> 2 [] c = "3" -> 3
      [] c = "4" -> 4 [] c = "5" -> 5 [] c = "6" -> 6 [] c = "7" -> 7
      [] c = "8" -> 8 [] c = "9" -> 9

\* characters str.strip() and str.split() treat as whitespace
IsWhitespace(c) == c \in {" ", "NL"}

\* str.isdigit() of one character: U+00B2 has Numeric_Type=Digit
IsDigitChar(c) == c \in DigitChars \cup {"sup2"}

\* \d of the re module on str patterns: Unicode category Nd only
IsReDigit(c) == c \in DigitChars

RECURSIVE LStrip(_)
LStrip(s) == IF Len(s) > 0 /\ IsWhitespace(s[1]) THEN LStrip(Tail(s)) ELSE s

RECURSIVE RStrip(_)
RStrip(s) ==
    IF Len(s) > 0 /\ IsWhitespace(s[Len(s)])
    THEN RStrip(SubSeq(s, 1, Len(s) - 1)) ELSE s

\* str.strip()
Strip(s) == RStrip(LStrip(s))

\* "%" in s
ContainsPercent(s) == \E i \in 1..Len(s) : s[i] = "%"

\* str.isdigit(): non-empty and every character a digit
IsDigit(s) == Len(s) > 0 /\ \A i \in 1..Len(s) : IsDigitChar(s[i])

\* int(s) on a string of decimal digits
RECURSIVE ParseInt(_)
ParseInt(s) ==
    IF Len(s) = 0 THEN 0
    ELSE 10 * ParseInt(SubSeq(s, 1, Len(s) - 1)) + DigitVal(s[Len(s)])

\* int(s) raises ValueError unless every character is a decimal digit
IntRaises(s) == \E i \in 1..Len(s) : s[i] \notin DigitChars

\* end of the longest run of \d starting at position i (i - 1 if none)
RECURSIVE DigitRunEnd(_, _)
DigitRunEnd(s, i) ==
    IF i <= Len(s) /\ IsReDigit(s[i]) THEN DigitRunEnd(s, i + 1) ELSE i - 1

\* re.fullmatch(r"%?(\d+)%?", s): [matched, group1]
PercentMatch(s) ==
    LET i0 == IF Len(s) > 0 /\ s[1] = "%" THEN 2 ELSE 1
        j  == DigitRunEnd(s, i0)
    IN  IF j >= i0 /\ (j = Len(s) \/ (j + 1 = Len(s) /\ s[Len(s)] = "%"))
        THEN [matched |-> TRUE, group1 |-> SubSeq(s, i0, j)]
        ELSE [matched |-> FALSE, group1 |-> <<>>]

\* ------------------------------------------------------------------------
\* Dimension resolver.  A result is [raised, value]: raised = TRUE is the
\* ValueError, value the returned integer.
\* ------------------------------------------------------------------------
Raised == [raised |-> TRUE, value |-> 0]
Returned(v) == [raised |-> FALSE, value |-> v]

parse_padding(padding_str, image_height) ==
    LET s == Strip(padding_str)
        percent_match == PercentMatch(s)
    IN  IF ContainsPercent(s) /\ percent_match.matched
        THEN Returned(PercentOf(image_height, ParseInt(percent_match.group1)))
        ELSE IF IsDigit(s)
        THEN (IF IntRaises(s) THEN Raised ELSE Returned(ParseInt(s)))
        ELSE Raised

\* parse_pixels_or_percent without the '"%" in value' test
parse_pixels_or_percent_NoPercentTest(value, base) ==
    LET s == Strip(value)
        percent_match == PercentMatch(s)
    IN  IF percent_match.matched
        THEN Returned(PercentOf(base, ParseInt(percent_match.group1)))
        ELSE IF IsDigit(s)
        THEN (IF IntRaises(s) THEN Raised ELSE Returned(ParseInt(s)))
        ELSE Raised

parse_pixels_or_percent(value, base) ==
    LET s == Strip(value)
        percent_match == PercentMatch(s)
    IN  IF ContainsPercent(s) /\ percent_match.matched
        THEN Returned(PercentOf(base, ParseInt(percent_match.group1)))
        ELSE IF IsDigit(s)
        THEN (IF IntRaises(s) THEN Raised ELSE Returned(ParseInt(s)))
        ELSE Raised

\* ------------------------------------------------------------------------
\* Caption wrap: wrap_for_multiline and the textwrap.fill it calls
\* (TextWrapper defaults: replace_whitespace, drop_whitespace and
\* break_long_words on; the caption alphabet has no hyphen and no tab).
\* ------------------------------------------------------------------------
RECURSIVE Join(_, _)
Join(parts, sep) ==
    IF Len(parts) = 0 THEN <<>>
    ELSE IF Len(parts) = 1 THEN parts[1]
    ELSE parts[1] \o sep \o Join(Tail(parts), sep)

RECURSIVE Concat(_)
Concat(parts) == IF Len(parts) = 0 THEN <<>> ELSE parts[1] \o Concat(Tail(parts))

\* str.split(sep) for a one-character separator
RECURSIVE SplitOn(_, _)
SplitOn(s, sep) ==
    IF \A i \in 1..Len(s) : s[i] # sep THEN <<s>>
    ELSE LET k == CHOOSE i \in 1..Len(s) :
                      s[i] = sep /\ \A j \in 1..(i - 1) : s[j] # sep
         IN  <<SubSeq(s, 1, k - 1)>> \o SplitOn(SubSeq(s, k + 1, Len(s)), sep)

\* text.replace("\\n", "\n")
RECURSIVE ReplaceEscapedNewlines(_)
ReplaceEscapedNewlines(s) ==
    IF Len(s) = 0 THEN <<>>
    ELSE IF Len(s) >= 2 /\ s[1] = "\\" /\ s[2] = "n"
    THEN <<"NL">> \o ReplaceEscapedNewlines(SubSeq(s, 3, Len(s)))
    ELSE <<s[1]>> \o ReplaceEscapedNewlines(Tail(s))

\* TextWrapper._munge_whitespace: every whitespace character becomes a space
MungeWhitespace(s) == [i \in 1..Len(s) |-> IF IsWhitespace(s[i]) THEN " " ELSE s[i]]

\* TextWrapper._split_chunks: maximal runs of whitespace and of non-whitespace
RECURSIVE RunEnd(_, _)
RunEnd(s, i) ==
    IF i < Len(s) /\ (IsWhitespace(s[i + 1]) <=> IsWhitespace(s[1]))
    THEN RunEnd(s, i + 1) ELSE i

RECURSIVE SplitChunks(_)
SplitChunks(s) ==
    IF Len(s) = 0 THEN <<>>
    ELSE LET k == RunEnd(s, 1)
         IN  <<SubSeq(s, 1, k)>> \o SplitChunks(SubSeq(s, k + 1, Len(s)))

\* the inner "while chunks" loop of _wrap_chunks: move chunks onto the
\* current line while they fit
RECURSIVE FillLine(_, _, _, _)
FillLine(chunks, cur_line, cur_len, width) ==
    IF Len(chunks) > 0 /\ cur_len + Len(chunks[1]) <= width
    THEN FillLine(Tail(chunks), Append(cur_line, chunks[1]),
                  cur_len + Len(chunks[1]), width)
    ELSE [chunks |-> chunks, cur_line |-> cur_line, cur_len |-> cur_len]

\* TextWrapper._handle_long_word with break_long_words = True
HandleLongWord(st, width) ==
    LET space_left == IF width < 1 THEN 1 ELSE width - st.cur_len
        chunk == st.chunks[1]
    IN  [chunks   |-> <<SubSeq(chunk, space_left + 1, Len(chunk))>> \o Tail(st.chunks),
         cur_line |-> Append(st.cur_line, SubSeq(chunk, 1, space_left)),
         cur_len  |-> st.cur_len + space_left]

\* one pass of the outer loop of _wrap_chunks, then the rest
RECURSIVE WrapChunks(_, _, _)
WrapChunks(chunks, lines, width) ==
    IF Len(chunks) = 0 THEN lines
    ELSE LET c1 == IF Strip(chunks[1]) = <<>> /\ Len(lines) > 0
                   THEN Tail(chunks) ELSE chunks
             filled == FillLine(c1, <<>>, 0, width)
             broken == IF Len(filled.chunks) > 0 /\ Len(filled.chunks[1]) > width
                       THEN HandleLongWord(filled, width) ELSE filled
             n == Len(broken.cur_line)
             cur_line == IF n > 0 /\ Strip(broken.cur_line[n]) = <<>>
                         THEN SubSeq(broken.cur_line, 1, n - 1)
                         ELSE broken.cur_line
             lines2 == IF Len(cur_line) > 0
                       THEN Append(lines, Concat(cur_line)) ELSE lines
         IN  WrapChunks(broken.chunks, lines2, width)

\* textwrap.fill(text, width); ValueError("invalid width") when width <= 0
TextWrapRaises(text, width) == width <= 0

TextWrapFill(text, width) ==
    Join(WrapChunks(SplitChunks(MungeWhitespace(text)), <<>>, width), <<"NL">>)

\* wrapped_blocks with the blank paragraphs dropped instead of kept as ""
WrappedBlocks_DropBlank(paragraphs, width) ==
    LET kept == SelectSeq(paragraphs, LAMBDA q : Strip(q) # <<>>)
    IN  [i \in 1..Len(kept) |-> TextWrapFill(kept[i], width)]

\* wrapped_blocks of wrap_for_multiline, one block per paragraph
WrappedBlocks(paragraphs, width) ==
    [i \in 1..Len(paragraphs) |->
        IF Strip(paragraphs[i]) = <<>> THEN <<>>
        ELSE TextWrapFill(paragraphs[i], width)]

\* wrap_for_multiline(draw, text, font, max_width); draw and font are not
\* used by the function.  Result: [raised, blocks, text].
wrap_for_multiline(text, font, max_width) ==
    LET normalized == ReplaceEscapedNewlines(text)
        approx_chars_per_line == max_width \div 5
        paragraphs == SplitOn(normalized, "NL")
        raises == \E i \in 1..Len(paragraphs) :
                      /\ Strip(paragraphs[i]) # <<>>
                      /\ TextWrapRaises(paragraphs[i], approx_chars_per_line)
    IN  IF raises THEN [raised |-> TRUE, blocks |-> <<>>, text |-> <<>>]
        ELSE LET wrapped_blocks == WrappedBlocks(paragraphs, approx_chars_per_line)
             IN  [raised |-> FALSE, blocks |-> wrapped_blocks,
                  text |-> Join(wrapped_blocks, <<"NL">>)]

\* ------------------------------------------------------------------------
\* Colours: parse_color.  A colour string is [form, r, g, b, name]:
\*   form "rgb"  - matches \d{1,3},\d{1,3},\d{1,3}, with components r, g, b
\*   form "hex"  - 3 or 6 hex digits without '#', name the digits
\*   form "name" - anything else, handed to ImageColor.getrgb as it is
\* name is a sequence of tokens, so that '#' can be prepended.
\* ------------------------------------------------------------------------
RgbString(r, g, b) == [form |-> "rgb", r |-> r, g |-> g, b |-> b, name |-> <<>>]
HexString(d) == [form |-> "hex", r |-> 0, g |-> 0, b |-> 0, name |-> <<d>>]
NameString(n) == [form |-> "name", r |-> 0, g |-> 0, b |-> 0, name |-> <<n>>]

\* ImageColor.getrgb on the strings of the model; anything else is a ValueError
KnownColors == {<<"black">>, <<"white">>, <<"#", "fff">>, <<"#", "000000">>}

GetRgb(name) ==
    IF name \in {<<"white">>, <<"#", "fff">>} THEN <<255, 255, 255>> ELSE <<0, 0, 0>>

parse_color(color_str) ==
    IF color_str.form = "rgb"
    THEN IF \E v \in {color_str.r, color_str.g, color_str.b} : ~(0 <= v /\ v <= 255)
         THEN [raised |-> TRUE, value |-> <<0, 0, 0>>]
         ELSE [raised |-> FALSE, value |-> <<color_str.r, color_str.g, color_str.b>>]
    ELSE LET name == IF color_str.form = "hex"
                     THEN <<"#">> \o color_str.name ELSE color_str.name
         IN  IF name \in KnownColors
             THEN [raised |-> FALSE, value |-> GetRgb(name)]
             ELSE [raised |-> TRUE, value |-> <<0, 0, 0>>]

\* ------------------------------------------------------------------------
\* Fonts and text measurement.  A font path is a sequence of name tokens, the
\* last of which may be ".ttf".  The measurer stands for Pillow's: a
\* TrueType font of size n advances n \div 2 pixels per glyph on lines n
\* pixels high, the built-in default font 6 pixels on lines of 11.
\* ------------------------------------------------------------------------
InstalledFonts == {<<"arial", ".ttf">>, <<"mono", ".ttf">>}
DefaultFont == [kind |-> "default", size |-> 11]
TrueTypeFont(size) == [kind |-> "truetype", size |-> size]

load_font(font_path, font_size) ==
    LET path == IF Len(font_path) = 0 \/ font_path[Len(font_path)] # ".ttf"
                THEN Append(font_path, ".ttf") ELSE font_path
    IN  IF path \in InstalledFonts THEN TrueTypeFont(font_size) ELSE DefaultFont

Spacing == 4
GlyphAdvance(font) == IF font.kind = "default" THEN 6 ELSE font.size \div 2
LineHeight(font) == font.size

\* measured pixel width of one line
LineWidth(font, line) == Len(line) * GlyphAdvance(font)

SeqMax(f) == IF Len(f) = 0 THEN 0
             ELSE CHOOSE m \in {f[i] : i \in 1..Len(f)} : \A i \in 1..Len(f) : f[i] <= m

\* draw.multiline_textbbox((0, 0), text, font, spacing): <<width, height>>;
\* the box of the empty text is empty
MultilineTextBBox(text, font) ==
    LET lines == SplitOn(text, "NL")
    IN  IF Len(text) = 0 THEN <<0, 0>> ELSE
        <<SeqMax([i \in 1..Len(lines) |-> LineWidth(font, lines[i])]),
          Len(lines) * LineHeight(font) + (Len(lines) - 1) * Spacing>>

\* ------------------------------------------------------------------------
\* Draw origin of process_image
\* ------------------------------------------------------------------------
\* OriginY with the margin of the bottom alignment forgotten
OriginY_NoBottomMargin(valign, height, bottom_padding, text_height) ==
    IF valign = "top" THEN height + 10
    ELSE IF valign = "bottom" THEN height + bottom_padding - text_height
    ELSE height + (bottom_padding - text_height) \div 2

OriginY(valign, height, bottom_padding, text_height) ==
    IF valign = "top" THEN height + 10
    ELSE IF valign = "bottom" THEN height + bottom_padding - text_height - 10
    ELSE height + (bottom_padding - text_height) \div 2

\* OriginX with the margin of the right alignment added instead of subtracted
OriginX_RightMarginAdded(align, width, text_width) ==
    IF align = "left" THEN 20
    ELSE IF align = "right" THEN width - text_width + 20
    ELSE (width - text_width) \div 2

OriginX(align, width, text_width) ==
    IF align = "left" THEN 20
    ELSE IF align = "right" THEN width - text_width - 20
    ELSE (width - text_width) \div 2

\* ------------------------------------------------------------------------
\* State of one run of main / process_image
\* ------------------------------------------------------------------------
VARIABLES
    args,            \* the parsed command line (argparse namespace)
    img,             \* the input image: [width, height]
    pc,              \* the statement about to run
    bottom_padding, bg_rgb, text_rgb,
    new_img,         \* the output canvas: [state, width, height]
    font, max_text_width,
    wrapped_blocks, wrapped_text,
    text_width, text_height, x, y,
    saved,           \* new_img.save has written the output file
    exit_status,     \* -1 while the process runs
    validated,       \* history: the arguments whose parse call has returned
    rejected         \* history: the arguments whose parse call has raised

vars == <<args, img, pc, bottom_padding, bg_rgb, text_rgb, new_img, font,
          max_text_width, wrapped_blocks, wrapped_text, text_width,
          text_height, x, y, saved, exit_status, validated, rejected>>

\* the argparse defaults of main
DefaultArgs ==
    [input |-> "photo.png", output |-> <<"out", ".png">>,
     comment |-> <<"n">>,
     padding |-> <<"2", "0", "0">>,
     bg_color |-> NameString("black"),
     text_color |-> NameString("white"),
     font |-> <<"arial">>,
     font_size |-> 16,
     align |-> "left",
     valign |-> "top",
     wrap_width |-> <<"9", "0", "%">>]

NoCanvas == [state |-> "none", width |-> 0, height |-> 0]

\* the locals of process_image before it has assigned them
LocalsUnset ==
    /\ bottom_padding = 0 /\ bg_rgb = <<0, 0, 0>> /\ text_rgb = <<0, 0, 0>>
    /\ new_img = NoCanvas
    /\ font = DefaultFont /\ max_text_width = 0
    /\ wrapped_blocks = <<>> /\ wrapped_text = <<>>
    /\ text_width = 0 /\ text_height = 0 /\ x = 0 /\ y = 0
    /\ saved = FALSE /\ exit_status = -1 /\ validated = {} /\ rejected = {}

\* files Image.open can read and extensions Image.save can write
ReadableInputs == {"photo.png"}
WritableExtensions == {".png", ".jpg"}

\* Image.open(input_image).convert("RGB"); width, height = img.size
OpenImage ==
    /\ pc = "open"
    /\ pc' = IF args.input \in ReadableInputs THEN "parse_padding" ELSE "IOError"
    /\ UNCHANGED <<args, img, bottom_padding, bg_rgb, text_rgb, new_img, font,
                   max_text_width, wrapped_blocks, wrapped_text, text_width,
                   text_height, x, y, saved, exit_status, validated, rejected>>

\* bottom_padding = parse_padding(padding, height)
ParsePadding ==
    /\ pc = "parse_padding"
    /\ LET r == parse_padding(args.padding, img.height)
       IN  IF r.raised
           THEN /\ pc' = "ValueError"
                /\ rejected' = rejected \cup {"padding"}
                /\ UNCHANGED <<bottom_padding, validated>>
           ELSE /\ pc' = "parse_bg_color"
                /\ bottom_padding' = r.value
                /\ validated' = validated \cup {"padding"}
                /\ UNCHANGED rejected
    /\ UNCHANGED <<args, img, bg_rgb, text_rgb, new_img, font,
                   max_text_width, wrapped_blocks, wrapped_text, text_width,
                   text_height, x, y, saved, exit_status>>

\* ParseBgColor that swallows the ValueError and goes on with black
ParseBgColor_Swallow ==
    /\ pc = "parse_bg_color"
    /\ LET r == parse_color(args.bg_color)
       IN  /\ pc' = "parse_text_color"
           /\ bg_rgb' = r.value
           /\ validated' = IF r.raised THEN validated
                           ELSE validated \cup {"bg_color"}
           /\ UNCHANGED rejected
    /\ UNCHANGED <<args, img, bottom_padding, text_rgb, new_img, font,
                   max_text_width, wrapped_blocks, wrapped_text, text_width,
                   text_height, x, y, saved, exit_status>>

\* bg_rgb = parse_color(bg_color)
ParseBgColor ==
    /\ pc = "parse_bg_color"
    /\ LET r == parse_color(args.bg_color)
       IN  IF r.raised
           THEN /\ pc' = "ValueError"
                /\ rejected' = rejected \cup {"bg_color"}
                /\ UNCHANGED <<bg_rgb, validated>>
           ELSE /\ pc' = "parse_text_color"
                /\ bg_rgb' = r.value
                /\ validated' = validated \cup {"bg_color"}
                /\ UNCHANGED rejected
    /\ UNCHANGED <<args, img, bottom_padding, text_rgb, new_img, font,
                   max_text_width, wrapped_blocks, wrapped_text, text_width,
                   text_height, x, y, saved, exit_status>>

\* text_rgb = parse_color(text_color)
ParseTextColor ==
    /\ pc = "parse_text_color"
    /\ LET r == parse_color(args.text_color)
       IN  IF r.raised
           THEN /\ pc' = "ValueError"
                /\ rejected' = rejected \cup {"text_color"}
                /\ UNCHANGED <<text_rgb, validated>>
           ELSE /\ pc' = "new_canvas"
                /\ text_rgb' = r.value
                /\ validated' = validated \cup {"text_color"}
                /\ UNCHANGED rejected
    /\ UNCHANGED <<args, img, bottom_padding, bg_rgb, new_img, font,
                   max_text_width, wrapped_blocks, wrapped_text, text_width,
                   text_height, x, y, saved, exit_status>>

\* new_img = Image.new("RGB", (width, height + bottom_padding), bg_rgb)
NewCanvas ==
    /\ pc = "new_canvas"
    /\ new_img' = [state |-> "created", width |-> img.width,
                   height |-> img.height + bottom_padding]
    /\ pc' = "paste"
    /\ UNCHANGED <<args, img, bottom_padding, bg_rgb, text_rgb, font,
                   max_text_width, wrapped_blocks, wrapped_text, text_width,
                   text_height, x, y, saved, exit_status, validated, rejected>>

\* new_img.paste(img, (0, 0))
PasteImage ==
    /\ pc = "paste"
    /\ new_img' = [new_img EXCEPT !.state = "pasted"]
    /\ pc' = "load_font"
    /\ UNCHANGED <<args, img, bottom_padding, bg_rgb, text_rgb, font,
                   max_text_width, wrapped_blocks, wrapped_text, text_width,
                   text_height, x, y, saved, exit_status, validated, rejected>>

\* draw = ImageDraw.Draw(new_img); font = load_font(font_path, font_size)
LoadFont ==
    /\ pc = "load_font"
    /\ font' = load_font(args.font, args.font_size)
    /\ pc' = "parse_wrap_width"
    /\ UNCHANGED <<args, img, bottom_padding, bg_rgb, text_rgb, new_img,
                   max_text_width, wrapped_blocks, wrapped_text, text_width,
                   text_height, x, y, saved, exit_status, validated, rejected>>

\* max_text_width = parse_pixels_or_percent(wrap_width, width)
ParseWrapWidth ==
    /\ pc = "parse_wrap_width"
    /\ LET r == parse_pixels_or_percent(args.wrap_width, img.width)
       IN  IF r.raised
           THEN /\ pc' = "ValueError"
                /\ rejected' = rejected \cup {"wrap_width"}
                /\ UNCHANGED <<max_text_width, validated>>
           ELSE /\ pc' = "wrap"
                /\ max_text_width' = r.value
                /\ validated' = validated \cup {"wrap_width"}
                /\ UNCHANGED rejected
    /\ UNCHANGED <<args, img, bottom_padding, bg_rgb, text_rgb, new_img, font,
                   wrapped_blocks, wrapped_text, text_width,
                   text_height, x, y, saved, exit_status>>

\* wrapped_text = wrap_for_multiline(draw, comment, font, max_text_width)
WrapCaption ==
    /\ pc = "wrap"
    /\ LET r == wrap_for_multiline(args.comment, font, max_text_width)
       IN  IF r.raised
           THEN /\ pc' = "ValueError"
                /\ UNCHANGED <<wrapped_blocks, wrapped_text>>
           ELSE /\ pc' = "measure"
                /\ wrapped_blocks' = r.blocks
                /\ wrapped_text' = r.text
    /\ UNCHANGED <<args, img, bottom_padding, bg_rgb, text_rgb, new_img, font,
                   max_text_width, text_width, text_height, x, y, saved,
                   exit_status, validated, rejected>>

\* bbox = draw.multiline_textbbox(...); text_width, text_height
MeasureText ==
    /\ pc = "measure"
    /\ LET bbox == MultilineTextBBox(wrapped_text, font)
       IN  /\ text_width' = bbox[1]
           /\ text_height' = bbox[2]
    /\ pc' = "origin"
    /\ UNCHANGED <<args, img, bottom_padding, bg_rgb, text_rgb, new_img, font,
                   max_text_width, wrapped_blocks, wrapped_text, x, y, saved,
                   exit_status, validated, rejected>>

\* the vertical and horizontal alignment of process_image
ComputeOrigin ==
    /\ pc = "origin"
    /\ y' = OriginY(args.valign, img.height, bottom_padding, text_height)
    /\ x' = OriginX(args.align, img.width, text_width)
    /\ pc' = "draw"
    /\ UNCHANGED <<args, img, bottom_padding, bg_rgb, text_rgb, new_img, font,
                   max_text_width, wrapped_blocks, wrapped_text, text_width,
                   text_height, saved, exit_status, validated, rejected>>

\* draw.multiline_text((x, y), wrapped_text, ...)
DrawText ==
    /\ pc = "draw"
    /\ new_img' = [new_img EXCEPT !.state = "drawn"]
    /\ pc' = "save"
    /\ UNCHANGED <<args, img, bottom_padding, bg_rgb, text_rgb, font,
                   max_text_width, wrapped_blocks, wrapped_text, text_width,
                   text_height, x, y, saved, exit_status, validated, rejected>>

\* new_img.save(output_image): ValueError on an unknown file extension
SaveImage ==
    /\ pc = "save"
    /\ IF args.output[Len(args.output)] \in WritableExtensions
       THEN saved' = TRUE /\ pc' = "return"
       ELSE saved' = FALSE /\ pc' = "ValueError"
    /\ UNCHANGED <<args, img, bottom_padding, bg_rgb, text_rgb, new_img, font,
                   max_text_width, wrapped_blocks, wrapped_text, text_width,
                   text_height, x, y, exit_status, validated, rejected>>

\* print("[+] Saved ..."), process_image returns and main ends
MainReturn ==
    /\ pc = "return"
    /\ exit_status' = 0
    /\ pc' = "exit"
    /\ UNCHANGED <<args, img, bottom_padding, bg_rgb, text_rgb, new_img, font,
                   max_text_width, wrapped_blocks, wrapped_text, text_width,
                   text_height, x, y, saved, validated, rejected>>

\* except ValueError as e: parser.error(str(e)), which exits with status 2
ParserError ==
    /\ pc = "ValueError"
    /\ exit_status' = 2
    /\ pc' = "exit"
    /\ UNCHANGED <<args, img, bottom_padding, bg_rgb, text_rgb, new_img, font,
                   max_text_width, wrapped_blocks, wrapped_text, text_width,
                   text_height, x, y, saved, validated, rejected>>

\* an exception main does not catch ends the process with a traceback
Traceback ==
    /\ pc = "IOError"
    /\ exit_status' = 1
    /\ pc' = "exit"
    /\ UNCHANGED <<args, img, bottom_padding, bg_rgb, text_rgb, new_img, font,
                   max_text_width, wrapped_blocks, wrapped_text, text_width,
                   text_height, x, y, saved, validated, rejected>>

\* ------------------------------------------------------------------------
\* Specification of a whole run: main calls process_image
\* ------------------------------------------------------------------------
Aligns == {"left", "center", "right"}
VAligns == {"top", "middle", "bottom"}

RunImages == {[width |-> 40, height |-> 30], [width |-> 100, height |-> 30]}
RunComments ==
    {<<>>, <<"n">>, <<"n", "n", " ", "n", "n", "n">>, <<"n", "n", "\\", "n", "n">>}
RunPaddings == {<<"2", "0">>, <<"5", "0", "%">>, <<"-", "5">>}
RunBgColors == {NameString("black"), RgbString(0, 0, 999)}
RunTextColors == {HexString("fff"), NameString("nocolor")}
RunFonts == {<<"arial">>, <<"missing">>}
RunFontSizes == {8, 16}
RunWrapWidths == {<<"9", "0", "%">>, <<"4">>, <<"%", "%">>}
RunOutputs == {<<"out", ".png">>, <<"out", ".xyz">>}

RunArgs ==
    {[input |-> "photo.png", output |-> o, comment |-> c, padding |-> p,
      bg_color |-> b, text_color |-> t, font |-> f, font_size |-> fs,
      align |-> a, valign |-> v, wrap_width |-> w] :
        o \in RunOutputs, c \in RunComments, p \in RunPaddings,
        b \in RunBgColors, t \in RunTextColors, f \in RunFonts,
        fs \in RunFontSizes, a \in Aligns, v \in VAligns, w \in RunWrapWidths}
    \cup {[DefaultArgs EXCEPT !.input = "missing.png"],
          [DefaultArgs EXCEPT !.input = "missing.png", !.padding = <<"-", "5">>]}

Init ==
    /\ args \in RunArgs
    /\ img \in RunImages
    /\ pc = "open"
    /\ LocalsUnset

Next ==
    \/ OpenImage
    \/ ParsePadding
    \/ ParseBgColor
    \/ ParseTextColor
    \/ NewCanvas
    \/ PasteImage
    \/ LoadFont
    \/ ParseWrapWidth
    \/ WrapCaption
    \/ MeasureText
    \/ ComputeOrigin
    \/ DrawText
    \/ SaveImage
    \/ MainReturn
    \/ ParserError
    \/ Traceback

Spec == Init /\ [][Next]_vars

\* ------------------------------------------------------------------------
\* Specification of the dimension resolver alone: process_image about to
\* resolve one size string against one base
\* ------------------------------------------------------------------------
RECURSIVE SeqsUpTo(_, _)
SeqsUpTo(S, n) ==
    IF n = 0 THEN {<<>>}
    ELSE LET shorter == SeqsUpTo(S, n - 1)
         IN  shorter \cup {Append(t, c) : t \in shorter, c \in S}

DigitChar(d) == CHOOSE c \in DigitChars : DigitVal(c) = d

\* str(n)
RECURSIVE Decimal(_)
Decimal(n) ==
    IF n < 10 THEN <<DigitChar(n)>>
    ELSE Append(Decimal(n \div 10), DigitChar(n % 10))

DimAlphabet == {"0", "5", "%", "-", " ", "sup2"}
GrammarBases == {0, 7, 200}

ResolveInputs ==
    (SeqsUpTo(DimAlphabet, MaxDimLen) \X GrammarBases)
    \cup ({Append(Decimal(p), "%") : p \in 0..MaxPercent} \X (0..MaxBase))

InitResolve ==
    /\ \E in \in ResolveInputs :
          /\ args = [DefaultArgs EXCEPT !.padding = in[1], !.wrap_width = in[1]]
          /\ img = [width |-> in[2], height |-> in[2]]
    /\ pc \in {"parse_padding", "parse_wrap_width"}
    /\ LocalsUnset

NextResolve == ParsePadding \/ ParseWrapWidth

SpecResolve == InitResolve /\ [][NextResolve]_vars

\* ------------------------------------------------------------------------
\* Specification of the caption wrap alone: process_image about to wrap,
\* with the canvas pasted, a font loaded and the wrap width resolved
\* ------------------------------------------------------------------------
CaptionAlphabet == {"n", "\\", " ", "NL"}
WrapWidths == {0, 4, 5, 10, 15}
WrapFonts == {TrueTypeFont(6), TrueTypeFont(10), TrueTypeFont(16)}

InitWrap ==
    /\ \E c \in SeqsUpTo(CaptionAlphabet, MaxCaptionLen), w \in WrapWidths :
          /\ args = [DefaultArgs EXCEPT !.comment = c, !.wrap_width = Decimal(w)]
          /\ max_text_width = w
    /\ font \in WrapFonts
    /\ img = [width |-> 40, height |-> 30]
    /\ pc = "wrap"
    /\ bottom_padding = 200
    /\ bg_rgb = <<0, 0, 0>> /\ text_rgb = <<255, 255, 255>>
    /\ new_img = [state |-> "pasted", width |-> 40, height |-> 230]
    /\ wrapped_blocks = <<>> /\ wrapped_text = <<>>
    /\ text_width = 0 /\ text_height = 0 /\ x = 0 /\ y = 0
    /\ saved = FALSE /\ exit_status = -1
    /\ validated = {"padding", "bg_color", "text_color", "wrap_width"}
    /\ rejected = {}

NextWrap == WrapCaption \/ MeasureText \/ ParserError

SpecWrap == InitWrap /\ [][NextWrap]_vars

\* ========================================================================
\* Properties of the dimension resolver (checked under SpecResolve, where
\* args.padding = args.wrap_width is the string and img.height = img.width
\* the base)
\* ========================================================================
PaddingResolved == pc = "parse_bg_color"
WrapWidthResolved == pc = "wrap"
ResolveRaised == pc = "ValueError"

\* the digits of a size string, read as a decimal number
DigitsOf(s) == ParseInt(SelectSeq(s, LAMBDA c : c \in DigitChars))

\* s matches ^%?\d+%?$
MatchesDimGrammar(s) ==
    \E a \in {0, 1}, b \in {0, 1} :
        /\ Len(s) - a - b >= 1
        /\ a = 1 => s[1] = "%"
        /\ b = 1 => s[Len(s)] = "%"
        /\ \A i \in (a + 1)..(Len(s) - b) : s[i] \in DigitChars

\* s is whitespace, a string of the grammar, whitespace
MatchesDimGrammarStripped(s) ==
    \E i \in 1..(Len(s) + 1), j \in 0..Len(s) :
        /\ \A k \in 1..(i - 1) : s[k] = " "
        /\ \A k \in (j + 1)..Len(s) : s[k] = " "
        /\ MatchesDimGrammar(SubSeq(s, i, j))

\* C3: percentage resolution returns exactly floor(base * percent / 100),
\* for parse_padding and for parse_pixels_or_percent, percents above 100
\* included.
C3_PercentIsFloor ==
    /\ (PaddingResolved /\ ContainsPercent(args.padding))
          => bottom_padding = (img.height * DigitsOf(args.padding)) \div 100
    /\ (WrapWidthResolved /\ ContainsPercent(args.wrap_width))
          => max_text_width = (img.width * DigitsOf(args.wrap_width)) \div 100

\* C4 as stated: the resolver succeeds if and only if the string itself
\* matches ^%?\d+%?$.
C4_SucceedsIffGrammar ==
    /\ (PaddingResolved \/ WrapWidthResolved) => MatchesDimGrammar(args.padding)
    /\ ResolveRaised => ~MatchesDimGrammar(args.padding)

\* C4 amended: the resolver succeeds if and only if the string with its
\* leading and trailing whitespace removed matches ^%?\d+%?$; a string
\* without '%' is read as absolute pixels (its decimal value), a string with
\* '%' as a percentage of the base (floor(base * percent / 100), or one less
\* where the floating-point product of C3 falls short).
C4_SucceedsIffStrippedGrammar ==
    /\ (PaddingResolved \/ WrapWidthResolved) => MatchesDimGrammarStripped(args.padding)
    /\ ResolveRaised => ~MatchesDimGrammarStripped(args.padding)
    /\ PaddingResolved =>
          IF ContainsPercent(args.padding)
          THEN bottom_padding \in
                   {(img.height * DigitsOf(args.padding)) \div 100 - k : k \in {0, 1}}
          ELSE bottom_padding = DigitsOf(args.padding)
    /\ WrapWidthResolved =>
          IF ContainsPercent(args.wrap_width)
          THEN max_text_width \in
                   {(img.width * DigitsOf(args.wrap_width)) \div 100 - k : k \in {0, 1}}
          ELSE max_text_width = DigitsOf(args.wrap_width)

\* a size string with surrounding whitespace has been resolved as pixels
C4_Witness ==
    /\ WrapWidthResolved
    /\ Len(args.wrap_width) >= 2
    /\ args.wrap_width[1] = " "
    /\ ~ContainsPercent(args.wrap_width)
    /\ max_text_width = 50

\* ========================================================================
\* Properties of the caption wrap (checked under SpecWrap)
\* ========================================================================
WrapReturned == pc \in {"measure", "origin"}

NormalizedCaption == ReplaceEscapedNewlines(args.comment)
LinesOf(text) == SplitOn(text, "NL")
WordsOf(text) ==
    SelectSeq(SplitChunks(MungeWhitespace(text)), LAMBDA c : ~IsWhitespace(c[1]))
Fits(line) == LineWidth(font, line) <= max_text_width
AllFit(lines) == \A i \in 1..Len(lines) : Fits(lines[i])

\* words separated by single spaces, nothing before or after them
Canonical(line) ==
    \A i \in 1..Len(line) :
        line[i] = " " => i > 1 /\ i < Len(line) /\ line[i + 1] # " "

\* C1: when every word of the caption measures at most the wrap width,
\* every line of the wrapped text measures at most the wrap width.
C1_LinesFit ==
    (WrapReturned /\ AllFit(WordsOf(NormalizedCaption)))
        => AllFit(LinesOf(wrapped_text))

\* C2: when the caption has a word wider than the wrap width, the wrap
\* keeps the words as they are, and the wide word is a line of its own.
C2_LongWordUnsplit ==
    LET in  == WordsOf(NormalizedCaption)
        out == LinesOf(wrapped_text)
    IN  (WrapReturned /\ \E i \in 1..Len(in) : ~Fits(in[i]))
            => /\ WordsOf(wrapped_text) = in
               /\ \A i \in 1..Len(in) :
                     ~Fits(in[i]) => \E l \in 1..Len(out) : out[l] = in[i]

\* C6: the wrap returns wrapped text for every caption and every
\* non-negative wrap width, never an error, and one empty line for the
\* empty caption.
C6_WrapReturns ==
    /\ pc # "ValueError"
    /\ exit_status # 2
    /\ (WrapReturned /\ args.comment = <<>>) => wrapped_text = <<>>

\* C9: wrapping text whose lines already fit returns the same lines with
\* the same line boundaries.  (Stated for lines of single-spaced words, the
\* form of already-wrapped text, so that no whitespace is at stake.)
C9_Idempotent ==
    LET lines == LinesOf(NormalizedCaption)
    IN  (/\ WrapReturned
         /\ AllFit(lines)
         /\ \A i \in 1..Len(lines) : Canonical(lines[i]))
            => LinesOf(wrapped_text) = lines

\* the positions of the caption that break it into paragraphs: a line break,
\* or the backslash of a backslash-n pair; and the n of such a pair
Breaks(t) ==
    {i \in 1..Len(t) :
        t[i] = "NL" \/ (t[i] = "\\" /\ i < Len(t) /\ t[i + 1] = "n")}
EscapeTails(t) == {i \in 2..Len(t) : t[i] = "n" /\ t[i - 1] = "\\"}
ParagraphOf(t, i) == 1 + Cardinality({b \in Breaks(t) : b < i})

RECURSIVE PickChars(_, _, _)
PickChars(t, I, i) ==
    IF i > Len(t) THEN <<>>
    ELSE (IF i \in I THEN <<t[i]>> ELSE <<>>) \o PickChars(t, I, i + 1)

\* the characters of paragraph k of the caption that are not spaces
ParagraphInk(t, k) ==
    PickChars(t, {i \in (1..Len(t)) \ (Breaks(t) \cup EscapeTails(t)) :
                      ParagraphOf(t, i) = k /\ t[i] # " "}, 1)

\* C10: the wrapped text has one block per paragraph of the caption, in
\* paragraph order, where paragraphs are separated by line breaks and by
\* backslash-n pairs; each block carries the characters of its paragraph,
\* and an empty paragraph yields one empty line.
C10_ParagraphsPreserved ==
    WrapReturned =>
        /\ Len(wrapped_blocks) = Cardinality(Breaks(args.comment)) + 1
        /\ \A k \in 1..Len(wrapped_blocks) :
              /\ SelectSeq(wrapped_blocks[k], LAMBDA c : ~IsWhitespace(c))
                     = ParagraphInk(args.comment, k)
              /\ ParagraphInk(args.comment, k) = <<>> => wrapped_blocks[k] = <<>>
        /\ wrapped_text = Join(wrapped_blocks, <<"NL">>)

\* "n", line break, backslash-n, "n" has been wrapped into three blocks
C10_Witness ==
    /\ WrapReturned
    /\ \E i \in 1..Len(args.comment) : args.comment[i] = "\\"
    /\ \E i \in 1..Len(args.comment) : args.comment[i] = "NL"
    /\ Len(wrapped_blocks) = 3
    /\ wrapped_blocks[1] # <<>>
    /\ wrapped_blocks[2] = <<>>
    /\ wrapped_blocks[3] # <<>>

\* ========================================================================
\* Properties of a whole run (checked under Spec)
\* ========================================================================
OriginComputed == pc = "draw" \/ new_img.state = "drawn"
AllArguments == {"padding", "bg_color", "text_color", "wrap_width"}

\* C5 as stated: all four strings are validated before the canvas exists,
\* and a run in which a validation fails saves nothing and ends in the
\* command-line error exit.
C5_ValidationBeforeMutation ==
    /\ new_img.state # "none" => AllArguments \subseteq validated
    /\ rejected # {} =>
          /\ ~saved
          /\ pc \in {"ValueError", "exit"}
          /\ pc = "exit" => exit_status = 2

\* C5 amended: padding, background colour and text colour are validated
\* before the canvas is created; the wrap width is validated after the
\* canvas has been created and the image pasted, before the caption is
\* drawn; a run in which a validation fails saves nothing and ends in the
\* command-line error exit.
C5_ValidationBeforeDrawing ==
    /\ new_img.state # "none" =>
          {"padding", "bg_color", "text_color"} \subseteq validated
    /\ new_img.state = "drawn" => AllArguments \subseteq validated
    /\ saved => AllArguments \subseteq validated
    /\ rejected # {} =>
          /\ ~saved
          /\ new_img.state # "drawn"
          /\ pc \in {"ValueError", "exit"}
          /\ pc = "exit" => exit_status = 2

\* a run has rejected the wrap width with the canvas already pasted
C5_Witness ==
    /\ rejected = {"wrap_width"}
    /\ new_img.state = "pasted"
    /\ pc = "exit"
    /\ exit_status = 2
    /\ ~saved

\* C7: the draw origin follows the alignment table, the band starting at
\* the height of the source image.
C7_OriginTable ==
    OriginComputed =>
        /\ y = CASE args.valign = "top" -> img.height + 10
                 [] args.valign = "bottom" ->
                        img.height + bottom_padding - text_height - 10
                 [] args.valign = "middle" ->
                        img.height + (bottom_padding - text_height) \div 2
        /\ x = CASE args.align = "left" -> 20
                 [] args.align = "right" -> img.width - text_width - 20
                 [] args.align = "center" -> (img.width - text_width) \div 2

\* an origin has been computed for right-aligned text placed in the middle of
\* a band whose slack is odd
C7_Witness ==
    /\ OriginComputed
    /\ args.valign = "middle"
    /\ args.align = "right"
    /\ text_width > 0
    /\ (bottom_padding - text_height) % 2 = 1

InsideBand ==
    /\ 0 <= x
    /\ x + text_width <= img.width
    /\ img.height <= y
    /\ y + text_height <= img.height + bottom_padding

\* C8 as stated: when the text block is no larger than the band, the origin
\* places it inside the band.
C8_FitsWhenNoLarger ==
    (OriginComputed /\ text_width <= img.width /\ text_height <= bottom_padding)
        => InsideBand

\* the margins the alignments keep
HMargin(align) == IF align = "center" THEN 0 ELSE 20
VMargin(valign) == IF valign = "middle" THEN 0 ELSE 10

\* C8 amended: when the text block and the margin of the chosen alignment
\* (20 pixels for left and right, 10 for top and bottom, none for center and
\* middle) fit in the band, the origin places the block inside the band.
C8_FitsWithMargins ==
    (/\ OriginComputed
     /\ text_width + HMargin(args.align) <= img.width
     /\ text_height + VMargin(args.valign) <= bottom_padding)
        => InsideBand

\* a right- and bottom-aligned block has been placed with its margins
C8_Witness ==
    /\ OriginComputed
    /\ args.align = "right"
    /\ args.valign = "bottom"
    /\ text_width > 0
    /\ text_width + 20 <= img.width
    /\ text_height + 10 <= bottom_padding

====
